---- MODULE Spec2Model ----
(***************************************************************************)
(* Validation model of the interface data models (InterfaceData and        *)
(* InterfacePortConfig, solutions/interface_models.py).                    *)
(*                                                                         *)
(* A Python str is a sequence of one-character strings.  A Python value    *)
(* of the input mapping is a tagged record (PyStr, PyNone, PyBool).  An    *)
(* Optional field of a validated model is a set: {} is None, {v} is v.     *)
(***************************************************************************)
EXTENDS Integers, Sequences, FiniteSets, TLC

VARIABLES data, input, cls, result

vars == <<data, input, cls, result>>

(***************************************************************************)
(* Bounds of the explored inputs.                                          *)
(***************************************************************************)
MaxNameLen == 4
MaxListTokens == 2

(***************************************************************************)
(* Python values and characters.                                           *)
(***************************************************************************)
PyStr(s) == [t |-> "str", s |-> s]
PyNone == [t |-> "None"]
PyBool(b) == [t |-> "bool", b |-> b]

IsStr(v) == v.t = "str"

LF == "\n"
SP == " "

Digits == <<"0", "1", "2", "3", "4", "5", "6", "7", "8", "9">>

IsDigit(c) == \E i \in 1..Len(Digits) : Digits[i] = c

DigitValue(c) == (CHOOSE i \in 1..Len(Digits) : Digits[i] = c) - 1

AllDigits(s) == \A i \in 1..Len(s) : IsDigit(s[i])

RECURSIVE DecValue(_)
DecValue(s) ==
    IF s = <<>> THEN 0
    ELSE 10 * DecValue(SubSeq(s, 1, Len(s) - 1)) + DigitValue(s[Len(s)])

UpperCase == <<"A", "B", "C", "D", "E", "F", "G", "H", "I", "J", "K", "L", "M",
               "N", "O", "P", "Q", "R", "S", "T", "U", "V", "W", "X", "Y", "Z">>
LowerCase == <<"a", "b", "c", "d", "e", "f", "g", "h", "i", "j", "k", "l", "m",
               "n", "o", "p", "q", "r", "s", "t", "u", "v", "w", "x", "y", "z">>

LowerChar(c) ==
    IF \E i \in 1..Len(UpperCase) : UpperCase[i] = c
    THEN LowerCase[CHOOSE i \in 1..Len(UpperCase) : UpperCase[i] = c]
    ELSE c

\* str.lower()
Lower(s) == [i \in 1..Len(s) |-> LowerChar(s[i])]

\* The index of the first character of s, at or after position from, that is
\* in seps; Len(s) + 1 when there is none.
FirstOf(s, seps, from) ==
    IF \E i \in from..Len(s) : s[i] \in seps
    THEN CHOOSE i \in from..Len(s) :
             s[i] \in seps /\ \A j \in from..(i - 1) : s[j] \notin seps
    ELSE Len(s) + 1

\* str.split(sep) and re.split of a one-character alternation: every
\* separator splits, empty parts are kept, the empty string gives [""].
RECURSIVE SplitAll(_, _)
SplitAll(s, seps) ==
    LET i == FirstOf(s, seps, 1)
    IN  IF i > Len(s) THEN <<s>>
        ELSE <<SubSeq(s, 1, i - 1)>> \o SplitAll(SubSeq(s, i + 1, Len(s)), seps)

\* str.split(sep, 1): at most one split, at the first separator.
SplitOnce(s, sep) ==
    LET i == FirstOf(s, {sep}, 1)
    IN  IF i > Len(s) THEN <<s>>
        ELSE <<SubSeq(s, 1, i - 1), SubSeq(s, i + 1, Len(s))>>

\* str.replace(" ", "")
RECURSIVE RemoveSpaces(_)
RemoveSpaces(s) ==
    IF s = <<>> THEN <<>>
    ELSE IF s[1] = SP THEN RemoveSpaces(Tail(s))
    ELSE <<s[1]>> \o RemoveSpaces(Tail(s))

\* str.strip() of the whitespace of the model's alphabet
RECURSIVE Strip(_)
Strip(s) ==
    IF s = <<>> THEN <<>>
    ELSE IF s[1] \in {SP, LF} THEN Strip(Tail(s))
    ELSE IF s[Len(s)] \in {SP, LF} THEN Strip(SubSeq(s, 1, Len(s) - 1))
    ELSE s

\* A decimal integer literal as int(str) reads it: surrounding whitespace
\* ignored, an optional sign, then one or more digits.
IntBody(s) ==
    LET u == Strip(s)
    IN  IF u # <<>> /\ u[1] \in {"-", "+"} THEN Tail(u) ELSE u

IsIntLiteral(s) == IntBody(s) # <<>> /\ AllDigits(IntBody(s))

IntValue(s) ==
    LET u == Strip(s)
    IN  IF u # <<>> /\ u[1] = "-" THEN 0 - DecValue(IntBody(s)) ELSE DecValue(IntBody(s))

(***************************************************************************)
(* The two regular expressions.                                            *)
(***************************************************************************)
\* The number of leading non-digit characters of s: what the greedy \D+
\* consumes.
LeadingNonDigits(s) == FirstOf(s, {Digits[i] : i \in 1..Len(Digits)}, 1) - 1

\* Mutant of INTERFACE_REGEX_match: the pattern (\D*)(.*), which matches a
\* name that begins with a digit with an empty first group.
INTERFACE_REGEX_match_star(s) ==
    LET k == LeadingNonDigits(s)
        e == FirstOf(s, {LF}, k + 1)
    IN  <<SubSeq(s, 1, k), SubSeq(s, k + 1, e - 1)>>

\* INTERFACE_REGEX.match(s).groups(): <<>> stands for no match (None).
\* \D matches a line break, the dot of .* does not.
INTERFACE_REGEX_match(s) ==
    LET k == LeadingNonDigits(s)
        e == FirstOf(s, {LF}, k + 1)
    IN  IF k = 0 THEN <<>>
        ELSE <<SubSeq(s, 1, k), SubSeq(s, k + 1, e - 1)>>

\* (0|[1-9][0-9]*)
YangGroup(s) ==
    \/ s = <<"0">>
    \/ s # <<>> /\ AllDigits(s) /\ s[1] # "0"

\* The language of YANG_REGEX: groups joined by "/", then optionally "." and
\* digits.
YangLanguage(s) ==
    LET d == FirstOf(s, {"."}, 1)
        body == SubSeq(s, 1, d - 1)
        groups == SplitAll(body, {"/"})
    IN  /\ \A i \in 1..Len(groups) : YangGroup(groups[i])
        /\ d <= Len(s) => AllDigits(SubSeq(s, d + 1, Len(s)))

\* YANG_REGEX.match(v) is not None: re.match anchors the pattern at the
\* start of v only, so it succeeds when some prefix of v is in the language.
YANG_REGEX_match(v) == \E k \in 0..Len(v) : YangLanguage(SubSeq(v, 1, k))

(***************************************************************************)
(* The input mapping (a dict) and the outcome of a validator.              *)
(***************************************************************************)
Has(d, k) == k \in DOMAIN d

\* dict.get(k, default)
Get(d, k, default) == IF Has(d, k) THEN d[k] ELSE default

\* dict.update({k: v})
Update(d, k, v) == [x \in DOMAIN d \cup {k} |-> IF x = k THEN v ELSE d[x]]

\* del d[k], for a key the dict holds
Delete(d, k) == [x \in DOMAIN d \ {k} |-> d[x]]

Return(d) == [ok |-> TRUE, data |-> d, exc |-> "", step |-> ""]

Raise(d, exc, step) == [ok |-> FALSE, data |-> d, exc |-> exc, step |-> step]

\* pydantic turns a ValueError raised by a validator into its
\* ValidationError; any other exception leaves model_validate as it is.
ValidationError == "ValidationError"
KeyError == "KeyError"
AttributeError == "AttributeError"

(***************************************************************************)
(* Field constraints.                                                      *)
(***************************************************************************)
DESCRIPTION_MAX_LENGTH == 200
MTU_GE == 1500
MTU_LE == 9000
MTU_DEFAULT == 1500
VLAN_MIN == 1
VLAN_MAX == 4094

(***************************************************************************)
(* InterfaceData: the model validators that run before field validation.   *)
(***************************************************************************)
\* InterfaceData.set_interface_details: every exception of the lookup, the
\* match and the unpacking is caught and raised again as a ValueError.
set_interface_details(d) ==
    LET v == d["network_interface_name"]
        g == INTERFACE_REGEX_match(v.s)
    IN  IF ~Has(d, "network_interface_name") THEN
            Raise(d, ValidationError, "set_interface_details")
        ELSE IF ~IsStr(v) THEN
            Raise(d, ValidationError, "set_interface_details")
        ELSE IF g = <<>> THEN
            Raise(d, ValidationError, "set_interface_details")
        ELSE
            Return(Update(Update(d, "interface_type", PyStr(g[1])),
                          "interface_name", PyStr(g[2])))

\* The deletion of an empty-string input field shared by remove_unset_mtu
\* and remove_unset_ip4_addr: data.get(key, "") == "" holds for a missing
\* key as well, and del data[key] then raises KeyError.
remove_unset(d, key, step) ==
    IF Get(d, key, PyStr(<<>>)) = PyStr(<<>>) THEN
        IF Has(d, key) THEN Return(Delete(d, key))
        ELSE Raise(d, KeyError, step)
    ELSE Return(d)

\* InterfaceData.remove_unset_mtu
remove_unset_mtu(d) == remove_unset(d, "network_interface_mtu", "remove_unset_mtu")

(***************************************************************************)
(* InterfaceData: field validation.  Each operator gives the set of        *)
(* validated values of its field: empty when the field is in error.        *)
(***************************************************************************)
\* a str field without alias: required, strings only
StrField(d, k) == IF Has(d, k) /\ IsStr(d[k]) THEN {d[k].s} ELSE {}

\* InterfaceData.validate_interface_name
validate_interface_name(v) == IF YANG_REGEX_match(v) THEN {v} ELSE {}

interface_name_field(d) ==
    UNION {validate_interface_name(v) : v \in StrField(d, "interface_name")}

\* bool in lax mode: a bool, or one of the strings pydantic reads as one
TrueStrings == {<<"t", "r", "u", "e">>, <<"y", "e", "s">>, <<"o", "n">>, <<"1">>}
FalseStrings == {<<"f", "a", "l", "s", "e">>, <<"n", "o">>, <<"o", "f", "f">>, <<"0">>}

interface_enabled_field(d) ==
    LET k == "network_interface_enabled"
        v == d[k]
    IN  IF ~Has(d, k) THEN {}
        ELSE IF v.t = "bool" THEN {v.b}
        ELSE IF IsStr(v) /\ Lower(v.s) \in TrueStrings THEN {TRUE}
        ELSE IF IsStr(v) /\ Lower(v.s) \in FalseStrings THEN {FALSE}
        ELSE {}

\* InterfaceData.empty_str_to_none
empty_str_to_none(v) == IF v = {<<>>} THEN {} ELSE v

\* interface_description: Optional[str] without default is a required
\* field; the result is a set of validated Optional values.
interface_description_field(d) ==
    LET k == "network_interface_description"
        v == d[k]
    IN  IF ~Has(d, k) THEN {}
        ELSE IF v = PyNone THEN {empty_str_to_none({})}
        ELSE IF IsStr(v) /\ Len(v.s) <= DESCRIPTION_MAX_LENGTH THEN
            {empty_str_to_none({v.s})}
        ELSE {}

\* an int field in lax mode: a string holding a decimal integer is read
IntCoerce(v) == IF IsStr(v) /\ IsIntLiteral(v.s) THEN {IntValue(v.s)} ELSE {}

\* Mutant of interface_mtu_field: the field without its ge and le bounds.
interface_mtu_field_unbounded(d) ==
    LET k == "network_interface_mtu"
    IN  IF ~Has(d, k) THEN {MTU_DEFAULT} ELSE IntCoerce(d[k])

interface_mtu_field(d) ==
    LET k == "network_interface_mtu"
    IN  IF ~Has(d, k) THEN {MTU_DEFAULT}
        ELSE {n \in IntCoerce(d[k]) : MTU_GE <= n /\ n <= MTU_LE}

InterfaceDataFields(d) ==
    [interface_type : StrField(d, "interface_type"),
     interface_name : interface_name_field(d),
     interface_enabled : interface_enabled_field(d),
     interface_description : interface_description_field(d),
     interface_mtu : interface_mtu_field(d)]

NoResult == [kind |-> "none"]
Failure(o) == [kind |-> "error", exc |-> o.exc, step |-> o.step]
Validated(fields) ==
    IF fields = {} THEN [kind |-> "error", exc |-> ValidationError, step |-> "fields"]
    ELSE [kind |-> "record", rec |-> CHOOSE r \in fields : TRUE]

\* The "before" validators of InterfaceData in the order pydantic runs
\* them: the one defined last runs first, and the first that raises ends
\* the run.
InterfaceDataBefore(d) ==
    LET o1 == remove_unset_mtu(d)
    IN  IF ~o1.ok THEN o1 ELSE set_interface_details(o1.data)

\* InterfaceData.model_validate(d): the dict as the validators leave it, and
\* the validated model or the error.
InterfaceData_model_validate(d) ==
    LET o == InterfaceDataBefore(d)
    IN  [data |-> o.data,
         result |-> IF o.ok THEN Validated(InterfaceDataFields(o.data)) ELSE Failure(o)]

(***************************************************************************)
(* InterfacePortConfig: the model validators that run before field         *)
(* validation.                                                             *)
(***************************************************************************)
ACCESS == <<"a", "c", "c", "e", "s", "s">>
TRUNK == <<"t", "r", "u", "n", "k">>
L3 == <<"l", "3">>

\* Mutant of set_trunk_details: the rest is indexed instead of unpacked, so
\* a missing allowed-VLAN part reads as empty and further parts are dropped.
set_trunk_details_lenient(d, switchport_mode, primary_vlan) ==
    LET p == SplitAll(primary_vlan, {":"})
        native_vlan == IF p[1] = <<>> THEN PyNone ELSE PyStr(p[1])
        allowed_vlans == IF Len(p) >= 2 THEN p[2] ELSE <<>>
    IN  Return(Update(Update(Update(d,
            "switchport_native_vlan", native_vlan),
            "switchport_allowed_vlans", PyStr(allowed_vlans)),
            "switchport_mode", PyStr(switchport_mode)))

\* The trunk branch of set_switchport_details: the rest splits on every ":"
\* and must unpack into exactly native_vlan and allowed_vlans.
set_trunk_details(d, switchport_mode, primary_vlan) ==
    LET p == SplitAll(primary_vlan, {":"})
        native_vlan == IF p[1] = <<>> THEN PyNone ELSE PyStr(p[1])
    IN  IF Len(p) # 2 THEN Raise(d, ValidationError, "set_switchport_details")
        ELSE Return(Update(Update(Update(d,
                 "switchport_native_vlan", native_vlan),
                 "switchport_allowed_vlans", PyStr(p[2])),
                 "switchport_mode", PyStr(switchport_mode)))

\* Mutant of set_access_details: the access branch also stores its VLAN as
\* the allowed VLANs, as the trunk branch does.
set_access_details_with_allowed(d, switchport_mode, primary_vlan) ==
    LET native_vlan == IF primary_vlan = <<>> THEN PyNone ELSE PyStr(primary_vlan)
    IN  Return(Update(Update(Update(d,
            "switchport_native_vlan", native_vlan),
            "switchport_allowed_vlans", PyStr(primary_vlan)),
            "switchport_mode", PyStr(switchport_mode)))

\* The access branch of set_switchport_details.
set_access_details(d, switchport_mode, primary_vlan) ==
    LET native_vlan == IF primary_vlan = <<>> THEN PyNone ELSE PyStr(primary_vlan)
    IN  Return(Update(Update(d,
            "switchport_native_vlan", native_vlan),
            "switchport_mode", PyStr(switchport_mode)))

\* The branches of set_switchport_details on the mode token: a token that
\* is none of l3, access and trunk falls through all of them and is stored
\* as the mode.
set_mode_details(d, switchport_mode, primary_vlan) ==
    IF Lower(switchport_mode) = L3 THEN
        Return(Update(d, "switchport_mode", PyNone))
    ELSE IF Lower(switchport_mode) = ACCESS THEN
        set_access_details(d, switchport_mode, primary_vlan)
    ELSE IF Lower(switchport_mode) = TRUNK THEN
        set_trunk_details(d, switchport_mode, primary_vlan)
    ELSE
        Return(Update(d, "switchport_mode", PyStr(switchport_mode)))

\* InterfacePortConfig.set_switchport_details: a missing key (KeyError) and
\* a value that is no string (AttributeError) are not caught; a value
\* without ":" fails the unpacking of split(":", 1) with a ValueError.
set_switchport_details(d) ==
    LET k == "network_switchport_mode_and_vlan"
        p == SplitOnce(d[k].s, ":")
    IN  IF ~Has(d, k) THEN Raise(d, KeyError, "set_switchport_details")
        ELSE IF ~IsStr(d[k]) THEN Raise(d, AttributeError, "set_switchport_details")
        ELSE IF Len(p) # 2 THEN Raise(d, ValidationError, "set_switchport_details")
        ELSE set_mode_details(d, p[1], p[2])

\* InterfacePortConfig.remove_unset_ip4_addr
remove_unset_ip4_addr(d) ==
    remove_unset(d, "network_interface_ip4_address", "remove_unset_ip4_addr")

(***************************************************************************)
(* InterfacePortConfig: field validation.                                  *)
(***************************************************************************)
InVlanRange(n) == VLAN_MIN <= n /\ n <= VLAN_MAX

\* InterfacePortConfig.validate_native_vlan, on the validated Optional[int]:
\* "if v and ..." skips None and 0.
validate_native_vlan(v) ==
    IF \E n \in v : n # 0 /\ ~InVlanRange(n) THEN {} ELSE {v}

\* Mutant of validate_allowed_vlans: the list is split on "," only.
validate_allowed_vlans_comma_only(v) ==
    LET w == RemoveSpaces(v)
        vlans == SplitAll(w, {","})
    IN  IF v = <<>> THEN {{}}
        ELSE IF \A i \in 1..Len(vlans) :
                    IsIntLiteral(vlans[i]) /\ InVlanRange(IntValue(vlans[i]))
        THEN {{w}}
        ELSE {}

\* Mutant of validate_allowed_vlans: the list is checked without its spaces
\* and returned with them.
validate_allowed_vlans_keeps_spaces(v) ==
    LET w == RemoveSpaces(v)
        vlans == SplitAll(w, {",", "-"})
    IN  IF v = <<>> THEN {{}}
        ELSE IF \A i \in 1..Len(vlans) :
                    IsIntLiteral(vlans[i]) /\ InVlanRange(IntValue(vlans[i]))
        THEN {{v}}
        ELSE {}

\* InterfacePortConfig.validate_allowed_vlans, on the validated str.
validate_allowed_vlans(v) ==
    LET w == RemoveSpaces(v)
        vlans == SplitAll(w, {",", "-"})
    IN  IF v = <<>> THEN {{}}
        ELSE IF \A i \in 1..Len(vlans) :
                    IsIntLiteral(vlans[i]) /\ InVlanRange(IntValue(vlans[i]))
        THEN {{w}}
        ELSE {}

\* switchport_mode: Optional[str] = None
switchport_mode_field(d) ==
    LET k == "switchport_mode"
    IN  IF ~Has(d, k) \/ d[k] = PyNone THEN {{}}
        ELSE IF IsStr(d[k]) THEN {{d[k].s}}
        ELSE {}

\* switchport_native_vlan: Optional[int] = None; the validator runs on a
\* value that is given, not on the default.
switchport_native_vlan_field(d) ==
    LET k == "switchport_native_vlan"
    IN  IF ~Has(d, k) THEN {{}}
        ELSE IF d[k] = PyNone THEN validate_native_vlan({})
        ELSE UNION {validate_native_vlan({n}) : n \in IntCoerce(d[k])}

\* switchport_allowed_vlans: Optional[str] = None
switchport_allowed_vlans_field(d) ==
    LET k == "switchport_allowed_vlans"
    IN  IF ~Has(d, k) THEN {{}}
        ELSE IF IsStr(d[k]) THEN validate_allowed_vlans(d[k].s)
        ELSE {}

\* One octet of a dotted quad: one to three digits, no leading zero, at
\* most 255.
IsOctet(s) ==
    /\ Len(s) \in 1..3 /\ AllDigits(s)
    /\ (Len(s) > 1 => s[1] # "0")
    /\ DecValue(s) <= 255

\* IPv4Interface(s) accepts s: a dotted quad, optionally "/" and a prefix
\* length of at most 32.
IPv4Interface(s) ==
    LET p == SplitAll(s, {"/"})
        o == SplitAll(p[1], {"."})
    IN  /\ Len(p) \in 1..2
        /\ Len(o) = 4 /\ \A i \in 1..Len(o) : IsOctet(o[i])
        /\ Len(p) = 2 => /\ p[2] # <<>> /\ AllDigits(p[2])
                         /\ DecValue(p[2]) <= 32

\* interface_ip4_address: Optional[IPv4Interface] = None
interface_ip4_address_field(d) ==
    LET k == "network_interface_ip4_address"
    IN  IF ~Has(d, k) \/ d[k] = PyNone THEN {{}}
        ELSE IF IsStr(d[k]) /\ IPv4Interface(d[k].s) THEN {{d[k].s}}
        ELSE {}

InterfacePortConfigFields(d) ==
    [interface_type : StrField(d, "interface_type"),
     interface_name : interface_name_field(d),
     interface_enabled : interface_enabled_field(d),
     interface_description : interface_description_field(d),
     interface_mtu : interface_mtu_field(d),
     switchport_mode : switchport_mode_field(d),
     switchport_native_vlan : switchport_native_vlan_field(d),
     switchport_allowed_vlans : switchport_allowed_vlans_field(d),
     interface_ip4_address : interface_ip4_address_field(d)]

\* The "before" validators of InterfacePortConfig in the order pydantic
\* runs them: the subclass's before the base class's, and within a class
\* the one defined last first.
InterfacePortConfigBefore(d) ==
    LET o1 == remove_unset_ip4_addr(d)
        o2 == set_switchport_details(o1.data)
    IN  IF ~o1.ok THEN o1
        ELSE IF ~o2.ok THEN o2
        ELSE InterfaceDataBefore(o2.data)

\* InterfacePortConfig.model_validate(d)
InterfacePortConfig_model_validate(d) ==
    LET o == InterfacePortConfigBefore(d)
    IN  [data |-> o.data,
         result |-> IF o.ok THEN Validated(InterfacePortConfigFields(o.data))
                    ELSE Failure(o)]

(***************************************************************************)
(* The tickets validated: a base ticket with one part varied at a time.    *)
(***************************************************************************)
SeqsUpTo(S, n) == UNION {[1..k -> S] : k \in 0..n}

\* A ticket from the Optional value of each of its keys.
Ticket(name, enabled, description, mtu, switchport, ip4) ==
    LET given == [network_interface_name |-> name,
                  network_interface_enabled |-> enabled,
                  network_interface_description |-> description,
                  network_interface_mtu |-> mtu,
                  network_switchport_mode_and_vlan |-> switchport,
                  network_interface_ip4_address |-> ip4]
    IN  [k \in {x \in DOMAIN given : given[x] # {}} |-> CHOOSE v \in given[k] : TRUE]

Strs(S) == {{PyStr(s)} : s \in S}

NameChars == {"G", "0", "1", "/", ".", LF}

GigabitEthernet1_0_3 ==
    <<"G", "i", "g", "a", "b", "i", "t", "E", "t", "h", "e", "r", "n", "e", "t",
      "1", "/", "0", "/", "3">>

ExampleNames ==
    {GigabitEthernet1_0_3, <<"G", "1", "/", "/", "3">>, <<"G", "1", "/", "0", ".", "1">>}

Names == SeqsUpTo(NameChars, MaxNameLen) \cup ExampleNames

MtuStrings ==
    {<<>>, <<"1", "4", "9", "9">>, <<"1", "5", "0", "0">>, <<"9", "0", "0", "0">>,
     <<"9", "0", "0", "1">>, <<"x">>, <<"-", "1">>}

Description(n) == [i \in 1..n |-> "d"]

Descriptions ==
    {Description(0), Description(DESCRIPTION_MAX_LENGTH),
     Description(DESCRIPTION_MAX_LENGTH + 1)}

Ip4Strings ==
    {<<>>, <<"1", "0", ".", "0", ".", "0", ".", "1", "/", "2", "4">>,
     <<"1", "0", ".", "0", ".", "0", ".", "1">>, <<"1", "0", ".", "0", "/", "2", "4">>}

ModeTokens ==
    {ACCESS, <<"A", "c", "c", "e", "s", "s">>, TRUNK, <<"T", "R", "U", "N", "K">>,
     L3, <<"L", "3">>, <<"f", "o", "o">>, <<>>}

VlanTokens ==
    {<<>>, <<"0">>, <<"1">>, <<"1", "0", "0">>, <<"4", "0", "9", "4">>,
     <<"4", "0", "9", "5">>, <<"-", "1">>, <<"-", "0">>, <<"x">>}

ListTokens ==
    {<<>>, <<"0">>, <<"1">>, <<"1", "0">>, <<"4", "0", "9", "4">>,
     <<"4", "0", "9", "5">>, <<"x">>, <<"1", SP, "0">>}

\* The allowed-VLAN lists of at most n tokens, joined by "," and "-".
RECURSIVE ListsOf(_)
ListsOf(n) ==
    IF n <= 1 THEN ListTokens
    ELSE ListsOf(n - 1) \cup
         {l \o <<c>> \o t : l \in ListsOf(n - 1), c \in {",", "-"}, t \in ListTokens}

ExampleLists ==
    {<<"1", "0", ",", "2", "0", "-", "3", "0", ",", "4", "0", "9", "5">>,
     <<"1", "0", ",", "2", "0", ",", "3", "0">>,
     <<"1", "0", ",", ",", "2", "0">>, <<"1", "0", "-">>, <<SP>>}

Lists == ListsOf(MaxListTokens) \cup ExampleLists

Descriptors ==
    ModeTokens
    \cup {m \o <<":">> \o v : m \in ModeTokens, v \in VlanTokens}
    \cup {m \o <<":">> \o v \o <<":">> \o l :
            m \in {ACCESS, TRUNK, <<"T", "R", "U", "N", "K">>, L3, <<"f", "o", "o">>},
            v \in {<<>>, <<"1", "0", "0">>}, l \in Lists}
    \cup {m \o <<":">> \o v \o <<":">> \o l :
            m \in {TRUNK}, v \in VlanTokens, l \in ListsOf(1)}
    \cup {m \o <<":", "1", ":", "2", ":", "3">> : m \in ModeTokens}

True == {PyBool(TRUE)}
Empty == {PyStr(<<>>)}
Access10 == {PyStr(ACCESS \o <<":", "1", "0">>)}
Gi1 == {PyStr(<<"G", "1">>)}

NameTickets ==
    {Ticket(n, True, Empty, Empty, Access10, Empty) :
        n \in Strs(Names) \cup {{}, {PyNone}}}

DescriptorTickets ==
    {Ticket(Gi1, True, Empty, Empty, s, Empty) :
        s \in Strs(Descriptors) \cup {{}, {PyNone}}}

FieldTickets ==
    {Ticket(Gi1, e, d, m, s, i) :
        e \in {{}, {PyNone}, True, {PyBool(FALSE)}, {PyStr(<<"Y", "e", "s">>)}},
        d \in Strs(Descriptions) \cup {{}, {PyNone}},
        m \in Strs(MtuStrings) \cup {{}, {PyNone}},
        s \in {{}, Access10, {PyStr(L3 \o <<":">>)}},
        i \in Strs(Ip4Strings) \cup {{}, {PyNone}}}

Tickets == NameTickets \cup DescriptorTickets \cup FieldTickets

(***************************************************************************)
(* The state machine: a ticket's dict is handed to model_validate, which   *)
(* rewrites it in place; the caller may hand the same dict in again.       *)
(*   data   : the dict                                                     *)
(*   input  : the dict as it was when the last model_validate began        *)
(*   cls    : the model class of the last model_validate                   *)
(*   result : what the last model_validate returned or raised              *)
(***************************************************************************)
Init ==
    /\ data \in Tickets
    /\ input = data
    /\ cls = "none"
    /\ result = NoResult

\* validated_data = InterfaceData.model_validate(input_data["ticket"])
ValidateInterfaceData ==
    LET r == InterfaceData_model_validate(data)
    IN  /\ data' = r.data
        /\ input' = data
        /\ cls' = "InterfaceData"
        /\ result' = r.result

\* validated_data = InterfacePortConfig.model_validate(webhook_data["ticket"])
ValidateInterfacePortConfig ==
    LET r == InterfacePortConfig_model_validate(data)
    IN  /\ data' = r.data
        /\ input' = data
        /\ cls' = "InterfacePortConfig"
        /\ result' = r.result

Next == ValidateInterfaceData \/ ValidateInterfacePortConfig

Spec == Init /\ [][Next]_vars

(***************************************************************************)
(* What the properties read of a state.                                    *)
(***************************************************************************)
NAME_KEY == "network_interface_name"
MTU_KEY == "network_interface_mtu"
IP4_KEY == "network_interface_ip4_address"
SWITCHPORT_KEY == "network_switchport_mode_and_vlan"

IsRecord == result.kind = "record"
IsError == result.kind = "error"
IsPortConfig == cls = "InterfacePortConfig"

\* The last model_validate was handed a string under key k.
InputStr(k) == Has(input, k) /\ IsStr(input[k])

Colons(s) == {i \in 1..Len(s) : s[i] = ":"}

\* The descriptor handed in is <mode>:<rest>, read at its first ":".
HasDescriptor == InputStr(SWITCHPORT_KEY) /\ Colons(input[SWITCHPORT_KEY].s) # {}
Descriptor == input[SWITCHPORT_KEY].s
FirstColon == CHOOSE i \in Colons(Descriptor) : \A j \in Colons(Descriptor) : i <= j
ModeToken == SubSeq(Descriptor, 1, FirstColon - 1)
Rest == SubSeq(Descriptor, FirstColon + 1, Len(Descriptor))

\* The descriptor handed in is trunk:<native>:<list>.
IsTrunkDescriptor ==
    HasDescriptor /\ Lower(ModeToken) = TRUNK /\ Cardinality(Colons(Rest)) = 1
TrunkColon == CHOOSE i \in Colons(Rest) : TRUE
TrunkNative == SubSeq(Rest, 1, TrunkColon - 1)
TrunkList == SubSeq(Rest, TrunkColon + 1, Len(Rest))

\* The native VLAN a record holds for the digits v of the descriptor.
NativeOf(v) == IF v = <<>> THEN {} ELSE {DecValue(v)}

NotSpace(c) == c # SP
(***************************************************************************)
(* C1.  The interface_name of every validated record is, as a whole, in    *)
(* the index grammar: "/"-separated decimal groups without leading zero,   *)
(* optionally followed by "." and digits.  An index that is not (such as   *)
(* 1//3) makes validation fail.                                            *)
(***************************************************************************)
C1_IndexFullyMatchesGrammar ==
    IsRecord => YangLanguage(result.rec.interface_name)

(***************************************************************************)
(* C2.  The native VLAN of every validated switchport record is absent or  *)
(* an integer in 1..4094: a native VLAN of 0, a negative one or one above  *)
(* 4094 makes validation fail.                                             *)
(***************************************************************************)
C2_NativeVlanInRange ==
    (IsPortConfig /\ IsRecord) =>
        \A n \in result.rec.switchport_native_vlan : 1 <= n /\ n <= 4094

(***************************************************************************)
(* C3.  A record is validated only from a descriptor whose mode token is,  *)
(* ignoring case, access, trunk or l3, and its mode is then access, trunk  *)
(* or absent: any other mode token makes validation fail.                  *)
(***************************************************************************)
C3_ModeIsAccessTrunkOrL3 ==
    (IsPortConfig /\ IsRecord /\ HasDescriptor) =>
        /\ Lower(ModeToken) \in {ACCESS, TRUNK, L3}
        /\ \A m \in result.rec.switchport_mode : Lower(m) \in {ACCESS, TRUNK}

(***************************************************************************)
(* C4.  In a validated switchport record the fields that do not belong to  *)
(* the mode are absent: from access:<v> the record has the mode token as   *)
(* mode, <v> as native VLAN (absent when <v> is empty) and no allowed      *)
(* VLANs; from l3:<rest> it has no mode, no native VLAN and no allowed     *)
(* VLANs whatever <rest> is; allowed VLANs are present only with mode      *)
(* trunk.                                                                  *)
(***************************************************************************)
C4_IrrelevantFieldsAbsent ==
    (IsPortConfig /\ IsRecord /\ HasDescriptor) =>
        LET rec == result.rec
        IN  /\ Lower(ModeToken) = ACCESS =>
                /\ rec.switchport_mode = {ModeToken}
                /\ rec.switchport_allowed_vlans = {}
                /\ AllDigits(Rest) => rec.switchport_native_vlan = NativeOf(Rest)
            /\ Lower(ModeToken) = L3 =>
                /\ rec.switchport_mode = {}
                /\ rec.switchport_native_vlan = {}
                /\ rec.switchport_allowed_vlans = {}
            /\ rec.switchport_allowed_vlans # {} =>
                /\ Lower(ModeToken) = TRUNK
                /\ rec.switchport_mode = {ModeToken}

\* access:100 has been validated into mode access with native VLAN 100.
C4_Witness ==
    /\ IsPortConfig /\ IsRecord /\ HasDescriptor
    /\ Descriptor = ACCESS \o <<":", "1", "0", "0">>
    /\ result.rec.switchport_mode = {ACCESS}
    /\ result.rec.switchport_native_vlan = {100}
    /\ result.rec.switchport_allowed_vlans = {}

\* An allowed-VLAN list is valid when it is empty or, with its spaces
\* removed, every part between "," and "-" is a decimal number in 1..4094.
ListValid(l) ==
    LET parts == SplitAll(SelectSeq(l, NotSpace), {",", "-"})
    IN  \/ l = <<>>
        \/ \A i \in 1..Len(parts) :
              /\ parts[i] # <<>> /\ AllDigits(parts[i])
              /\ DecValue(parts[i]) >= 1 /\ DecValue(parts[i]) <= 4094

\* The input of the last model_validate with the string under key k
\* replaced by s.
InputWith(k, s) == Update(input, k, PyStr(s))

\* The trunk descriptor handed in, with list l in place of its own.
TrunkWithList(l) == ModeToken \o <<":">> \o TrunkNative \o <<":">> \o l

C6_MtuNormalizedAndBounded ==
    (result # NoResult /\ InputStr(MTU_KEY)) =>
        LET raw == input[MTU_KEY].s
            numeric == raw # <<>> /\ AllDigits(raw)
            inRange == numeric /\ DecValue(raw) >= 1500 /\ DecValue(raw) <= 9000
            otherwiseValid ==
                IF IsPortConfig
                THEN InterfacePortConfig_model_validate(
                         InputWith(MTU_KEY, <<"1", "5", "0", "0">>)).result.kind = "record"
                ELSE InterfaceData_model_validate(
                         InputWith(MTU_KEY, <<"1", "5", "0", "0">>)).result.kind = "record"
        IN  /\ IsRecord => result.rec.interface_mtu >= 1500 /\ result.rec.interface_mtu <= 9000
            /\ (IsRecord /\ raw = <<>>) => result.rec.interface_mtu = 1500
            /\ (IsRecord /\ numeric) => result.rec.interface_mtu = DecValue(raw)
            /\ (raw # <<>> /\ ~inRange) => IsError
            /\ ((raw = <<>> \/ inRange) /\ otherwiseValid) => IsRecord

\* An empty MTU has been validated into 1500.
C6_Witness ==
    /\ cls = "InterfaceData" /\ IsRecord /\ InputStr(MTU_KEY)
    /\ input[MTU_KEY].s = <<>>
    /\ result.rec.interface_mtu = 1500

(***************************************************************************)
(* C9.  No record is produced from a ticket without the descriptor field,  *)
(* from a descriptor without ":", or from a trunk descriptor whose rest    *)
(* does not split on ":" into exactly native VLAN and allowed VLANs        *)
(* (trunk:100, trunk:1:2:3).                                               *)
(***************************************************************************)
C9_MalformedDescriptorFails ==
    (IsPortConfig /\ result # NoResult) =>
        /\ ~Has(input, SWITCHPORT_KEY) => IsError
        /\ (InputStr(SWITCHPORT_KEY) /\ Colons(input[SWITCHPORT_KEY].s) = {}) => IsError
        /\ (HasDescriptor /\ Lower(ModeToken) = TRUNK /\ Cardinality(Colons(Rest)) # 1)
              => IsError

\* trunk:100 has been rejected by set_switchport_details.
C9_Witness ==
    /\ IsPortConfig /\ IsError /\ HasDescriptor
    /\ Descriptor = TRUNK \o <<":", "1", "0", "0">>
    /\ result.step = "set_switchport_details"
    /\ result.exc = ValidationError

\* The last model_validate got as far as splitting the interface name.
ReachedNameSplit ==
    /\ result # NoResult
    /\ IsError => result.step \in {"set_interface_details", "fields"}

NameSplitFailed == IsError /\ result.step = "set_interface_details"

\* The class and index the split has put into the dict.
SplitClass == data["interface_type"].s
SplitIndex == data["interface_name"].s

\* k is the length of the longest leading run of non-digits of s.
IsLeadingRun(s, k) ==
    /\ \A i \in 1..k : ~IsDigit(s[i])
    /\ k < Len(s) => IsDigit(s[k + 1])

(***************************************************************************)
(* C7, as claimed.  The split is total on non-empty strings: for every     *)
(* non-empty name it succeeds, the class is the longest leading run of     *)
(* non-digits and the index is the remainder, so that class followed by    *)
(* index is the name.                                                      *)
(***************************************************************************)
C7_SplitTotalOnNonEmpty ==
    (ReachedNameSplit /\ InputStr(NAME_KEY) /\ input[NAME_KEY].s # <<>>) =>
        /\ ~NameSplitFailed
        /\ SplitClass \o SplitIndex = input[NAME_KEY].s
        /\ IsLeadingRun(input[NAME_KEY].s, Len(SplitClass))

(***************************************************************************)
(* C7, amended.  The split succeeds exactly when the name is a string      *)
(* that begins with a character that is no digit: the class is then the    *)
(* longest leading run of non-digits (never empty) and the index is the    *)
(* remainder up to, not including, the first line break after the class.   *)
(* It fails, with the malformed-name error, when the name is missing, is   *)
(* no string, is empty or begins with a digit.                             *)
(***************************************************************************)
C7_SplitNeedsLeadingNonDigit ==
    ReachedNameSplit =>
        IF InputStr(NAME_KEY) /\ input[NAME_KEY].s # <<>> /\ ~IsDigit(input[NAME_KEY].s[1])
        THEN LET name == input[NAME_KEY].s
                 rest == SubSeq(name, Len(SplitClass) + 1, Len(name))
             IN  /\ ~NameSplitFailed
                 /\ SplitClass # <<>>
                 /\ SplitClass = SubSeq(name, 1, Len(SplitClass))
                 /\ IsLeadingRun(name, Len(SplitClass))
                 /\ \E e \in 0..Len(rest) :
                        /\ SplitIndex = SubSeq(rest, 1, e)
                        /\ \A i \in 1..e : rest[i] # LF
                        /\ e < Len(rest) => rest[e + 1] = LF
        ELSE NameSplitFailed /\ result.exc = ValidationError

\* GigabitEthernet1/0/3 has been split into GigabitEthernet and 1/0/3.
C7_Witness ==
    /\ IsRecord /\ InputStr(NAME_KEY)
    /\ input[NAME_KEY].s = GigabitEthernet1_0_3
    /\ result.rec.interface_type = SubSeq(GigabitEthernet1_0_3, 1, 15)
    /\ result.rec.interface_name = <<"1", "/", "0", "/", "3">>

C10_AbsentFieldIsNoError ==
    /\ (cls = "InterfaceData" /\ ~Has(input, MTU_KEY)) =>
          LET r == InterfaceData_model_validate(InputWith(MTU_KEY, <<>>)).result
          IN  r.kind = "record" => result = r /\ result.rec.interface_mtu = 1500
    /\ (IsPortConfig /\ ~Has(input, MTU_KEY)) =>
          LET r == InterfacePortConfig_model_validate(InputWith(MTU_KEY, <<>>)).result
          IN  r.kind = "record" => result = r /\ result.rec.interface_mtu = 1500
    /\ (IsPortConfig /\ ~Has(input, IP4_KEY)) =>
          LET r == InterfacePortConfig_model_validate(InputWith(IP4_KEY, <<>>)).result
          IN  r.kind = "record" => result = r /\ result.rec.interface_ip4_address = {}

====
